---- MODULE Spec2Model ----
(***************************************************************************)
(* Retrieval-augmented memory engine of AHA-Data: the per-user rolling     *)
(* window of past exchanges kept in a Qdrant collection                    *)
(* (app/database/qdrant_client.py), the hybrid query, and reciprocal rank  *)
(* fusion (app/utils/text_processing/reciprocal_rank_fusion.py).           *)
(***************************************************************************)
EXTENDS Integers, Sequences, FiniteSets, TLC

(***************************************************************************)
(* Program constants and model bounds                                      *)
(***************************************************************************)

\* qdrant_client.py:98  `if len(existing_messages) >= 50`
K == 50

\* qdrant_client.py:30  page size of the scroll in get_all_messages
ScrollLimit == 100

\* record calls a behaviour of SpecSeq issues beyond K
MaxExtra == 3

\* record calls a behaviour of Spec or SpecRead issues
MaxCalls == 3

\* how many network / model calls may fail in one behaviour
MaxFailures == 2

\* uuid4 streams the model distinguishes (see Uuid4)
MaxSeed == 2

\* consecutive record calls that may carry the same timestamp
MaxStride == 2

\* the callers of add_message_vector that may run as concurrent tasks
Procs == {1, 2}

\* ids are drawn from 1 .. IdModulus - 1; IdModulus is prime and exceeds the
\* number of ids a behaviour draws
IdModulus == K + 9

\* the limits get_recent_conversations is called with (worker.py:48 passes 50)
RecentLimits == {1, 2, K}

\* reciprocal_rank_fusion.py:4  `k: int = 60`
RrfK == 60

\* common.py:169  the limit classify_message passes to the hybrid search
SearchLimit == 4

\* longest result list the enumerated queries return
MaxLen == 2

\* largest score of an enumerated result
MaxScore == 2

\* largest n_points rrf is called with (classify_message passes 3)
MaxCap == 3

\* times rrf is run on the result of one search
MaxRuns == 2

\* point ids of the enumerated results
Ids == {"A", "B", "C"}

VARIABLES
    exists,     \* the user's collection exists in the index
    store,      \* its points, in the order scroll lists them (ascending id)
    pc,         \* pc[p]: the step of add_message_vector task p is at
    args,       \* args[p]: the arguments of task p's call
    listed,     \* listed[p]: existing_messages of task p
    vec,        \* vec[p]: the triple embed returned to task p
    outcome,    \* outcome[p]: how task p's last call ended
    log,        \* log[p]: the errors task p's call printed, oldest first
    calls,      \* messages recorded for this user so far
    left,       \* record calls the behaviour may still issue
    recent,     \* what the last get_recent_conversations call returned
    uuids,      \* uuid4 values drawn so far
    failures,   \* failed network / model calls so far
    seed,       \* the uuid4 stream of this behaviour
    stride,     \* record calls per clock tick of the message timestamps
    recent_limit,  \* the limit of the last get_recent_conversations call
    deleted     \* the last delete_conversation_vectors call and how it ended

memVars == <<exists, store, pc, args, listed, vec, outcome, log, calls,
             left, recent, uuids, failures, seed, stride, recent_limit, deleted>>

VARIABLES
    dense_hits,   \* what the index answers to the dense query, best first
    sparse_hits,  \* what the index answers to the sparse query, best first
    n_points,     \* the n_points argument of rrf; none stands for None
    stage,        \* how far the retrieval went: start, searched, fused
    points,       \* what hybrid_search_endpoint returned
    rrf_scores,   \* rrf's rrf_scores of the last run, by id
    top_doc_ids,  \* rrf's top_doc_ids of the last run
    context,      \* the string the last run of rrf returned
    previous,     \* the string the run before it returned
    runs,         \* runs of rrf so far
    query,        \* the query text of the search
    search_limit, \* the limit argument of the search
    caller,       \* who searches: the route of model_query or classify_message
    embed_calls,  \* calls of embed the search made
    index_calls   \* calls of the index the search made

searchVars == <<dense_hits, sparse_hits, n_points, stage, points, rrf_scores,
                top_doc_ids, context, previous, runs, query, search_limit,
                caller,
                embed_calls, index_calls>>

VARIABLES
    loaded,       \* the embedding models are loaded (_model_d, _model_s_embedder)
    logits,       \* output.logits of the masked language model, by position
    sparse        \* what the last compute_sparse_vector call returned

sparseVars == <<logits, sparse>>

VARIABLES
    job_queue,    \* the ids of the jobs waiting in the asyncio.Queue, oldest first
    job_results,  \* job_results[id]: the status and result of job id
    job_types,    \* the "type" of each job enqueued so far, by id
    wpc,          \* wpc[w]: worker w waits in get, or runs a job
    wjob,         \* wjob[w]: the id of the job worker w took
    task_done,    \* task_done[id]: the task_done() calls made for job id
    reported      \* reported[id]: the status get_job_result last gave for id

workerVars == <<job_queue, job_results, job_types, wpc, wjob, task_done, reported>>

VARIABLES
    token_doc,    \* the reset_tokens document of the token
    rpc,          \* rpc[r]: the step reset_password request r is at
    response,     \* response[r]: what request r was last answered
    rleft,        \* reset_password requests the behaviour may still issue
    successes,    \* reset_password requests answered with success so far
    last_verify   \* what the verify-reset-token route last answered

tokenVars == <<token_doc, rpc, response, rleft, successes, last_verify>>

serviceVars == <<workerVars, tokenVars>>

vars == <<memVars, searchVars, loaded, sparseVars, serviceVars>>

(***************************************************************************)
(* Strings: Python compares str values lexicographically                   *)
(***************************************************************************)

\* a < b for two Python strings given as sequences of character codes
RECURSIVE StrLess(_, _)
StrLess(a, b) ==
    IF b = <<>> THEN FALSE
    ELSE IF a = <<>> THEN TRUE
    ELSE IF Head(a) # Head(b) THEN Head(a) < Head(b)
    ELSE StrLess(Tail(a), Tail(b))

\* datetime.isoformat(): every field is zero-padded to a fixed width
IsoFormat(t) == <<(t \div 100) % 10, (t \div 10) % 10, t % 10>>

\* the timestamp the n-th message carries
TimestampOf(n) == IsoFormat(((n - 1) \div stride) + 1)

(***************************************************************************)
(* sorted(): Python's sort is stable                                       *)
(***************************************************************************)

\* the timestamp key of remove_oldest_message and get_recent_conversations
TimestampKey(p) == p.payload.timestamp

\* x goes into the sorted s behind every element whose key is <= x's key
InsertByTimestamp(s, x) ==
    LET i == 1 + Cardinality({j \in 1 .. Len(s) :
                                 ~StrLess(TimestampKey(x), TimestampKey(s[j]))})
    IN  SubSeq(s, 1, i - 1) \o <<x>> \o SubSeq(s, i, Len(s))

\* sorted(msgs, key=lambda p: p.payload["timestamp"]), a stable sort: the
\* elements are inserted one by one, in list order
RECURSIVE SortedByTimestampFrom(_, _, _)
SortedByTimestampFrom(msgs, i, acc) ==
    IF i > Len(msgs) THEN acc
    ELSE LET next == InsertByTimestamp(acc, msgs[i])
         IN  IF Len(next) = i
             THEN SortedByTimestampFrom(msgs, i + 1, next)
             ELSE <<>>

\* the page as the scroll returned it
Unsorted(msgs) == msgs

SortedByTimestamp(msgs) == SortedByTimestampFrom(msgs, 1, <<>>)

(***************************************************************************)
(* The index (Qdrant) as the client sees it                                *)
(***************************************************************************)

\* str(uuid4()): the n-th id of the behaviour's stream; ids never repeat
Uuid4(n) == (n * seed) % IdModulus

\* a scroll that returns the `limit` points of the latest timestamps
ScrollNewest(limit) ==
    LET s == SortedByTimestamp(store)
    IN  IF Len(s) <= limit THEN s ELSE SubSeq(s, Len(s) - limit + 1, Len(s))

\* scroll(limit): the first `limit` points in ascending id order
Scroll(limit) ==
    IF Len(store) <= limit THEN store ELSE SubSeq(store, 1, limit)

\* a delete that removes the first point when none has the id
DeletePointsOrFirst(ids) ==
    IF \E i \in 1 .. Len(store) : store[i].id \in ids
    THEN SelectSeq(store, LAMBDA q : q.id \notin ids)
    ELSE IF store = <<>> THEN store ELSE Tail(store)

\* delete(points=[id]): the points left; deleting an absent id is a no-op
DeletePoints(ids) == SelectSeq(store, LAMBDA q : q.id \notin ids)

\* upsert(point): the point placed by id
RECURSIVE UpsertInto(_, _)
UpsertInto(s, x) ==
    IF s = <<>> THEN <<x>>
    ELSE IF x.id < Head(s).id THEN <<x>> \o s
    ELSE IF x.id = Head(s).id THEN <<x>> \o Tail(s)
    ELSE <<Head(s)>> \o UpsertInto(Tail(s), x)

\* embed(text): (dense, sparse indices, sparse values) of the text
Embed(text) == [dense |-> <<text>>, indices |-> <<text>>, values |-> <<1>>]

\* what embed returns when a model call raises (text_embedding.py:113-115)
EmbedFailed == [dense |-> <<>>, indices |-> <<>>, values |-> <<>>]

\* an index that takes a vector of any dimension
VectorAcceptedAny(v) == TRUE

\* the index rejects a point whose dense vector has the wrong dimension
VectorAccepted(v) == v.dense # <<>>

NoArgs == [conversation_id |-> 0, timestamp |-> <<>>, user_message |-> 0,
           bot_response |-> 0]

(***************************************************************************)
(* add_message_vector                                                      *)
(***************************************************************************)

\* a handler that logs and raises again, as delete_conversation_vectors does
AddMessageVectorReraise(e) == "raised"

\* the handler of add_message_vector (qdrant_client.py:126-127) logs and returns
AddMessageVectorExcept(e) == "returned"

\* the window test with > in place of >=
WindowFullOffByOne(existing_messages) == Len(existing_messages) > K

\* the window test of add_message_vector (qdrant_client.py:98)
WindowFull(existing_messages) == Len(existing_messages) >= K

\* the last of the sorted messages in place of the first
OldestReversed(existing_messages) ==
    SortedByTimestamp(existing_messages)[Len(existing_messages)]

\* remove_oldest_message: sorted(existing_messages, key=timestamp)[0]
Oldest(existing_messages) == SortedByTimestamp(existing_messages)[1]

\* a point whose payload lacks the bot_response
PointStructNoResponse(a, v, id) ==
    [id |-> id,
     vector |-> [dense |-> v.dense,
                 sparse |-> [indices |-> v.indices, values |-> v.values]],
     payload |-> [conversation_id |-> a.conversation_id,
                  timestamp |-> a.timestamp,
                  user_message |-> a.user_message]]

\* the PointStruct add_message_vector builds
PointStruct(a, v, id) ==
    [id |-> id,
     vector |-> [dense |-> v.dense,
                 sparse |-> [indices |-> v.indices, values |-> v.values]],
     payload |-> [conversation_id |-> a.conversation_id,
                  timestamp |-> a.timestamp,
                  user_message |-> a.user_message,
                  bot_response |-> a.bot_response]]

\* a point written under the id of a point the collection holds
NewPointReusingId(p, id) ==
    PointStruct(args[p], vec[p], IF store = <<>> THEN id ELSE store[1].id)

NewPoint(p, id) == PointStruct(args[p], vec[p], id)

\* the arguments save_message passes for the n-th message of the user
MessageArgs(n) ==
    [conversation_id |-> 1 + ((n - 1) % 2),
     timestamp |-> TimestampOf(n),
     user_message |-> n,
     bot_response |-> n]

\* save_message creates the task for the next message
CreateTask(p) ==
    /\ pc[p] = "idle"
    /\ left > 0
    /\ left' = left - 1
    /\ calls' = calls + 1
    /\ args' = [args EXCEPT ![p] = MessageArgs(calls + 1)]
    /\ pc' = [pc EXCEPT ![p] = "ensure"]
    /\ listed' = [listed EXCEPT ![p] = <<>>]
    /\ vec' = [vec EXCEPT ![p] = EmbedFailed]
    /\ outcome' = [outcome EXCEPT ![p] = "running"]
    /\ log' = [log EXCEPT ![p] = <<>>]
    /\ UNCHANGED <<exists, store, recent, uuids, failures, seed, stride,
                   loaded, recent_limit, deleted>>

\* save_message creates the task while no other task is running
StartRecord(p) ==
    /\ \A q \in Procs : pc[q] = "idle"
    /\ CreateTask(p)

\* save_message creates the task while an earlier one is still running
StartRecordConcurrent(p) ==
    /\ \E q \in Procs : pc[q] # "idle"
    /\ CreateTask(p)

\* a handler that lets the error end the call
EnsureCollectionAbort(e) == "idle"

\* the handler of ensure_collection_exists (qdrant_client.py:76-77) prints
\* the error; the caller goes on to list the messages
EnsureCollectionExcept(e) == "list"

\* ensure_collection_exists: collection_exists(...)
EnsureCheck(p) ==
    /\ pc[p] = "ensure"
    /\ pc' = [pc EXCEPT ![p] = IF exists THEN "list" ELSE "create"]
    /\ UNCHANGED <<exists, store, args, listed, vec, outcome, log, calls, uuids,
                   failures, left, recent, seed, stride,
                   loaded, recent_limit, deleted>>

\* ensure_collection_exists: create_collection(...); creating a collection
\* that exists by now is an error, which the function logs
CreateCollection(p) ==
    /\ pc[p] = "create"
    /\ exists' = TRUE
    /\ log' = [log EXCEPT ![p] = IF exists THEN Append(@, "create") ELSE @]
    /\ pc' = [pc EXCEPT ![p] =
                IF exists THEN EnsureCollectionExcept("create") ELSE "list"]
    /\ UNCHANGED <<store, args, listed, vec, outcome, calls, uuids, failures, left, recent, seed,
                   stride,
                   loaded, recent_limit, deleted>>

\* get_all_messages, then the window test of add_message_vector
ListMessages(p) ==
    /\ pc[p] = "list"
    /\ LET existing_messages == IF exists THEN Scroll(ScrollLimit) ELSE <<>>
       IN  /\ listed' = [listed EXCEPT ![p] = existing_messages]
           /\ log' = [log EXCEPT ![p] = IF exists THEN @ ELSE Append(@, "scroll")]
           /\ pc' = [pc EXCEPT ![p] =
                       IF WindowFull(existing_messages) THEN "evict" ELSE "embed"]
    /\ UNCHANGED <<exists, store, args, vec, outcome, calls, uuids, failures, left, recent, seed,
                   stride,
                   loaded, recent_limit, deleted>>

\* remove_oldest_message
RemoveOldest(p) ==
    /\ pc[p] = "evict"
    /\ IF listed[p] = <<>>
       THEN UNCHANGED store
       ELSE store' = DeletePoints({Oldest(listed[p]).id})
    /\ pc' = [pc EXCEPT ![p] = "embed"]
    /\ UNCHANGED <<exists, args, listed, vec, outcome, log, calls, uuids, failures,
                   left, recent, seed, stride,
                   loaded, recent_limit, deleted>>

\* embed(user_message); get_dense_embedder and
\* get_sparse_embedder_and_tokenizer load the models on first use
EmbedMessage(p) ==
    /\ pc[p] = "embed"
    /\ vec' = [vec EXCEPT ![p] = Embed(args[p].user_message)]
    /\ loaded' = TRUE
    /\ pc' = [pc EXCEPT ![p] = "upsert"]
    /\ UNCHANGED <<exists, store, args, listed, outcome, log, calls, uuids, failures,
                   left, recent, seed, stride,
                   recent_limit, deleted>>

\* the frame of a finished call is gone: its locals hold nothing
Return(p, how) ==
    /\ pc' = [pc EXCEPT ![p] = "idle"]
    /\ outcome' = [outcome EXCEPT ![p] = how]
    /\ args' = [args EXCEPT ![p] = NoArgs]
    /\ listed' = [listed EXCEPT ![p] = <<>>]
    /\ vec' = [vec EXCEPT ![p] = EmbedFailed]

\* qdrant_client.upsert(...): the index rejects the point when the collection
\* is absent or the vector is malformed, and the handler takes the error
Upsert(p) ==
    /\ pc[p] = "upsert"
    /\ uuids' = uuids + 1
    /\ IF exists /\ VectorAccepted(vec[p])
       THEN /\ store' = UpsertInto(store, NewPoint(p, Uuid4(uuids + 1)))
            /\ Return(p, "returned")
            /\ UNCHANGED log
       ELSE /\ UNCHANGED store
            /\ Return(p, AddMessageVectorExcept("upsert"))
            /\ log' = [log EXCEPT ![p] = Append(@, "upsert")]
    /\ UNCHANGED <<exists, calls, failures, left, recent, seed, stride,
                   loaded, recent_limit, deleted>>

(***************************************************************************)
(* The same steps when the index or the model is unreachable               *)
(***************************************************************************)

\* one more network / model call fails
Fails ==
    /\ failures < MaxFailures
    /\ failures' = failures + 1

\* collection_exists raises: ensure_collection_exists logs it and returns
EnsureCheckFail(p) ==
    /\ pc[p] = "ensure"
    /\ Fails
    /\ log' = [log EXCEPT ![p] = Append(@, "exists")]
    /\ pc' = [pc EXCEPT ![p] = EnsureCollectionExcept("exists")]
    /\ UNCHANGED <<exists, store, args, listed, vec, outcome, calls, uuids,
                   left, recent, seed, stride,
                   loaded, recent_limit, deleted>>

\* create_collection raises: ensure_collection_exists logs it and returns
CreateCollectionFail(p) ==
    /\ pc[p] = "create"
    /\ Fails
    /\ log' = [log EXCEPT ![p] = Append(@, "create")]
    /\ pc' = [pc EXCEPT ![p] = EnsureCollectionExcept("create")]
    /\ UNCHANGED <<exists, store, args, listed, vec, outcome, calls, uuids,
                   left, recent, seed, stride,
                   loaded, recent_limit, deleted>>

\* scroll raises: get_all_messages logs it and returns []
ListMessagesFail(p) ==
    /\ pc[p] = "list"
    /\ Fails
    /\ listed' = [listed EXCEPT ![p] = <<>>]
    /\ log' = [log EXCEPT ![p] = Append(@, "scroll")]
    /\ pc' = [pc EXCEPT ![p] = IF WindowFull(<<>>) THEN "evict" ELSE "embed"]
    /\ UNCHANGED <<exists, store, args, vec, outcome, calls, uuids, left, recent, seed,
                   stride,
                   loaded, recent_limit, deleted>>

\* a handler that lets the error end the record call
RemoveOldestAbort(e) == "idle"

\* the handler of remove_oldest_message (qdrant_client.py:54-55) prints the
\* error; add_message_vector goes on to embed
RemoveOldestExcept(e) == "embed"

\* delete raises: remove_oldest_message logs it and returns
RemoveOldestFail(p) ==
    /\ pc[p] = "evict"
    /\ listed[p] # <<>>
    /\ Fails
    /\ log' = [log EXCEPT ![p] = Append(@, "delete")]
    /\ pc' = [pc EXCEPT ![p] = RemoveOldestExcept("delete")]
    /\ UNCHANGED <<exists, store, args, listed, vec, outcome, calls, uuids,
                   left, recent, seed, stride,
                   loaded, recent_limit, deleted>>

\* a model call raises: embed logs it and returns ([], [], [])
EmbedMessageFail(p) ==
    /\ pc[p] = "embed"
    /\ Fails
    /\ vec' = [vec EXCEPT ![p] = EmbedFailed]
    /\ log' = [log EXCEPT ![p] = Append(@, "embed")]
    /\ pc' = [pc EXCEPT ![p] = "upsert"]
    /\ UNCHANGED <<exists, store, args, listed, outcome, calls, uuids, left, recent, seed,
                   stride,
                   loaded, recent_limit, deleted>>

\* upsert raises: the handler of add_message_vector takes the error
UpsertFail(p) ==
    /\ pc[p] = "upsert"
    /\ Fails
    /\ uuids' = uuids + 1
    /\ Return(p, AddMessageVectorExcept("upsert"))
    /\ log' = [log EXCEPT ![p] = Append(@, "upsert")]
    /\ UNCHANGED <<exists, store, calls, left, recent, seed, stride,
                   loaded, recent_limit, deleted>>

(***************************************************************************)
(* get_recent_conversations                                                *)
(***************************************************************************)

\* the value get_recent_conversations returns for an empty page
FirstMessageSentinel == "This is user's first ever message"

\* the value its handler returns (qdrant_client.py:219-221)
RecentError == [text |-> "", chunks |-> <<>>]

\* no call of get_recent_conversations has returned yet
NoRecent == [text |-> "None", chunks |-> <<>>]

\* "Conversation idx:" followed by the user_message and bot_response lines
ConversationChunks(docs) ==
    [i \in 1 .. Len(docs) |->
        [idx |-> i - 1,
         user_message |-> docs[i].payload.user_message,
         bot_response |-> docs[i].payload.bot_response]]

\* the body of get_recent_conversations on the page the scroll returned
FormatRecent(scrolled_points) ==
    IF scrolled_points # <<>>
    THEN [text |-> "Recent conversations:",
          chunks |-> ConversationChunks(SortedByTimestamp(scrolled_points))]
    ELSE [text |-> FirstMessageSentinel, chunks |-> <<>>]

\* get_recent_conversations(collection_name, limit); scrolling a collection
\* that does not exist raises, and the handler returns ""
GetRecentConversations(limit) ==
    IF exists THEN FormatRecent(Scroll(limit)) ELSE RecentError

Recent(limit) ==
    /\ recent' = GetRecentConversations(limit)
    /\ recent_limit' = limit
    /\ UNCHANGED <<exists, store, pc, args, listed, vec, outcome, log, calls,
                   left, uuids, failures, seed, stride, loaded, deleted>>

\* the scroll raises: the handler returns ""
RecentFail(limit) ==
    /\ Fails
    /\ recent' = RecentError
    /\ recent_limit' = limit
    /\ UNCHANGED <<exists, store, pc, args, listed, vec, outcome, log, calls,
                   left, uuids, seed, stride, loaded, deleted>>

(***************************************************************************)
(* delete_conversation_vectors                                             *)
(***************************************************************************)

\* qdrant_client.py:151  page size of the scroll in delete_conversation_vectors
DeleteScrollLimit == 10000

\* delete_conversation_vectors calls a behaviour of SpecDelete issues
MaxDeletes == 2

\* the conversation ids delete_conversation_vectors is called with; the
\* messages belong to conversations 1 and 2
ConversationIds == {1, 2, 3}

\* no delete_conversation_vectors call has ended yet
NoDelete == [conversation_id |-> 0, outcome |-> "none", n |-> 0]

\* the ids of the scrolled points whose payload carries the conversation id
MatchingPointIds(scrolled_points, conversation_id) ==
    {scrolled_points[i].id : i \in
        {j \in 1 .. Len(scrolled_points) :
            scrolled_points[j].payload.conversation_id = conversation_id}}

\* a handler that logs and returns, as that of add_message_vector does
DeleteConversationVectorsSwallow(e) == "returned"

\* the handler of delete_conversation_vectors (qdrant_client.py:172-174)
\* logs and raises again
DeleteConversationVectorsExcept(e) == "raised"

\* delete_conversation_vectors(collection_name, conversation_id); scrolling
\* a collection that does not exist raises
DeleteConversationVectors(conversation_id) ==
    /\ deleted.n < MaxDeletes
    /\ IF exists
       THEN /\ store' = DeletePoints(MatchingPointIds(Scroll(DeleteScrollLimit),
                                                      conversation_id))
            /\ deleted' = [conversation_id |-> conversation_id,
                           outcome |-> "returned", n |-> deleted.n + 1]
       ELSE /\ UNCHANGED store
            /\ deleted' = [conversation_id |-> conversation_id,
                           outcome |-> DeleteConversationVectorsExcept("scroll"),
                           n |-> deleted.n + 1]
    /\ UNCHANGED <<exists, pc, args, listed, vec, outcome, log, calls, left,
                   recent, uuids, failures, seed, stride, loaded, recent_limit>>

\* the scroll or the delete raises
DeleteConversationVectorsFail(conversation_id) ==
    /\ deleted.n < MaxDeletes
    /\ Fails
    /\ deleted' = [conversation_id |-> conversation_id,
                   outcome |-> DeleteConversationVectorsExcept("delete"),
                   n |-> deleted.n + 1]
    /\ UNCHANGED <<exists, store, pc, args, listed, vec, outcome, log, calls, left,
                   recent, uuids, seed, stride, loaded, recent_limit>>

(***************************************************************************)
(* compute_sparse_vector                                                   *)
(***************************************************************************)

\* the token positions of the tokenized text
Positions == {1, 2}

\* the cells of the vocabulary
Vocab == {0, 1, 2}

\* the logits the masked language model may give a cell
LogitValues == {-1, 0, 1, 2}

\* torch.relu
Relu(x) == IF x > 0 THEN x ELSE 0

\* torch.log(1 + x), in thousandths
Log1p(x) ==
    CASE x = 0 -> 0
      [] x = 1 -> 693
      [] x = 2 -> 1099
      [] OTHER -> 1386

\* tokens.attention_mask of a single text: no position is padding
AttentionMask == [i \in Positions |-> 1]

\* relu_log * attention_mask.unsqueeze(-1)
WeightedLog(lg, attention_mask) ==
    [i \in Positions |-> [v \in Vocab |-> Log1p(Relu(lg[i][v])) * attention_mask[i]]]

\* torch.max(weighted_log, dim=1): the maximum over the positions
MaxVal(weighted_log) ==
    [v \in Vocab |->
        CHOOSE m \in {weighted_log[i][v] : i \in Positions} :
            \A i \in Positions : weighted_log[i][v] <= m]

\* the elements of a set of numbers in ascending order
Ascending(S) ==
    [i \in 1 .. Cardinality(S) |->
        CHOOSE v \in S : Cardinality({u \in S : u < v}) = i - 1]

\* every cell, whatever its value
EveryCell(v) == Ascending(DOMAIN v)

\* torch.nonzero(vec, as_tuple=True)[0].tolist()
NonZero(v) == Ascending({c \in DOMAIN v : v[c] # 0})

NoSparse == [done |-> FALSE, indices |-> <<>>, values |-> <<>>]

\* the (indices, values) compute_sparse_vector returns for the logits lg
SparseVector(lg) ==
    LET v == MaxVal(WeightedLog(lg, AttentionMask))
        indices == NonZero(v)
    IN  [done |-> TRUE,
         indices |-> indices,
         values |-> IF indices # <<>>
                    THEN [i \in 1 .. Len(indices) |-> v[indices[i]]]
                    ELSE <<>>]

\* compute_sparse_vector(text)
ComputeSparseVector ==
    /\ ~sparse.done
    /\ sparse' = SparseVector(logits)
    /\ loaded' = TRUE
    /\ UNCHANGED logits

(***************************************************************************)
(* hybrid_search_endpoint                                                  *)
(***************************************************************************)

\* a ScoredPoint of a query response; scores are in tenths
Hit(id, score) == [id |-> id, score |-> score, payload |-> [text |-> id]]

\* a request that ignores its limit
QueryPointsUnlimited(hits, limit) == hits

\* one QueryRequest with limit=limit: the best `limit` hits
QueryPoints(hits, limit) ==
    IF Len(hits) <= limit THEN hits ELSE SubSeq(hits, 1, limit)

NoPoints == [error |-> FALSE, dense |-> <<>>, sparse |-> <<>>]

\* build_error_response(...): a JSONResponse, not a list of responses
ErrorResponse == [error |-> TRUE, dense |-> <<>>, sparse |-> <<>>]

\* the texts a search is made with; the first is the empty query
Queries == {"", "fever"}

\* the limits the route of model_query is called with
RouteLimits == {0, 1, SearchLimit}

\* model_query.py:24  `if not query or not collection_name or not limit`
RouteRejects(q, l) == q = "" \/ l = 0

\* hybrid_search_endpoint when its calls succeed: one embed of the query,
\* one query_batch_points whose responses come back dense first
HybridSearchEndpoint ==
    /\ embed_calls' = embed_calls + 1
    /\ index_calls' = index_calls + 1
    /\ loaded' = TRUE
    /\ points' = [error |-> FALSE,
                  dense |-> QueryPoints(dense_hits, search_limit),
                  sparse |-> QueryPoints(sparse_hits, search_limit)]

\* classify_message searches with the content of the message
HybridSearch ==
    /\ stage = "start"
    /\ caller = "classify"
    /\ HybridSearchEndpoint
    /\ stage' = "searched"
    /\ UNCHANGED <<dense_hits, sparse_hits, n_points, rrf_scores, top_doc_ids,
                   context, previous, runs, query, search_limit, caller>>

\* the hybrid_search route of model_query: the guard, then the endpoint
HybridSearchRoute ==
    /\ stage = "start"
    /\ caller = "route"
    /\ IF RouteRejects(query, search_limit)
       THEN /\ points' = ErrorResponse
            /\ UNCHANGED <<embed_calls, index_calls, loaded>>
       ELSE HybridSearchEndpoint
    /\ stage' = "searched"
    /\ UNCHANGED <<dense_hits, sparse_hits, n_points, rrf_scores, top_doc_ids,
                   context, previous, runs, query, search_limit, caller>>

\* query_batch_points raises, because the index is unreachable or because
\* embed returned ([], [], []): the handler returns the error response
HybridSearchFail ==
    /\ stage = "start"
    /\ ~(caller = "route" /\ RouteRejects(query, search_limit))
    /\ embed_calls' = embed_calls + 1
    /\ index_calls' = index_calls + 1
    /\ \E l \in {loaded, TRUE} : loaded' = l
    /\ points' = ErrorResponse
    /\ stage' = "searched"
    /\ UNCHANGED <<dense_hits, sparse_hits, n_points, rrf_scores, top_doc_ids,
                   context, previous, runs, query, search_limit, caller>>

(***************************************************************************)
(* rrf                                                                     *)
(***************************************************************************)

\* a score as the fraction <<numerator, denominator>>; the sums rrf forms
\* compare as floats the way they compare as fractions
FracLess(a, b) == a[1] * b[2] < b[1] * a[2]

FracEq(a, b) == a[1] * b[2] = b[1] * a[2]

\* (1 / (k + dense_rank)) + (1 / (k + sparse_rank))
RrfScore(k, dense_rank, sparse_rank) ==
    <<(k + sparse_rank) + (k + dense_rank), (k + dense_rank) * (k + sparse_rank)>>

\* x goes into s, sorted by score descending, behind every item whose
\* score is >= x's score
InsertDesc(s, x) ==
    LET i == 1 + Cardinality({j \in 1 .. Len(s) : ~FracLess(s[j].score, x.score)})
    IN  SubSeq(s, 1, i - 1) \o <<x>> \o SubSeq(s, i, Len(s))

RECURSIVE SortedDescFrom(_, _, _)
SortedDescFrom(items, i, acc) ==
    IF i > Len(items) THEN acc
    ELSE LET next == InsertDesc(acc, items[i])
         IN  IF Len(next) = i
             THEN SortedDescFrom(items, i + 1, next)
             ELSE <<>>

\* the sort without reverse=True
SortedAsc(items) ==
    LET d == SortedDescFrom(items, 1, <<>>)
    IN  [i \in 1 .. Len(d) |-> d[Len(d) + 1 - i]]

\* sorted(items, key=lambda x: x[1], reverse=True)
SortedDesc(items) == SortedDescFrom(items, 1, <<>>)

\* {str(r.id): r.score for r in results}, as its items in insertion order
ScoreItems(results) ==
    [i \in 1 .. Len(results) |->
        [id |-> results[i].id, score |-> <<results[i].score, 1>>]]

IdsOf(results) == {results[i].id : i \in 1 .. Len(results)}

\* the score of an id taken for its rank
RanksFromScores(ranked) ==
    [id \in {ranked[i].id : i \in 1 .. Len(ranked)} |->
        ranked[CHOOSE i \in 1 .. Len(ranked) : ranked[i].id = id].score[1]]

\* {doc_id: rank + 1 for rank, (doc_id, _) in enumerate(ranked)}
Ranks(ranked) ==
    [id \in {ranked[i].id : i \in 1 .. Len(ranked)} |->
        CHOOSE i \in 1 .. Len(ranked) : ranked[i].id = id]

\* a missing id ranked at the list's length, not one past it
RankOfNoPenalty(ranks, doc_id, results) ==
    IF doc_id \in DOMAIN ranks THEN ranks[doc_id] ELSE Len(results)

\* ranks.get(doc_id, len(results) + 1)
RankOf(ranks, doc_id, results) ==
    IF doc_id \in DOMAIN ranks THEN ranks[doc_id] ELSE Len(results) + 1

\* only the ids of the dense list
AllDocIdsDenseOnly(dense_results, sparse_results) == IdsOf(dense_results)

\* all_doc_ids = dense_scores.keys() | sparse_scores.keys()
AllDocIds(dense_results, sparse_results) ==
    IdsOf(dense_results) \cup IdsOf(sparse_results)

\* the rrf_scores dictionary
RrfScores(dense_results, sparse_results, k) ==
    LET dense_ranks == Ranks(SortedDesc(ScoreItems(dense_results)))
        sparse_ranks == Ranks(SortedDesc(ScoreItems(sparse_results)))
    IN  [doc_id \in AllDocIds(dense_results, sparse_results) |->
            RrfScore(k, RankOf(dense_ranks, doc_id, dense_results),
                        RankOf(sparse_ranks, doc_id, sparse_results))]

\* the orders in which a Python set of strings may be iterated
SetOrders(S) ==
    {f \in [1 .. Cardinality(S) -> S] : \A i, j \in DOMAIN f : i # j => f[i] # f[j]}

\* a slice that keeps one entry too many
TakeOneMore(s, n) == IF n + 1 >= Len(s) THEN s ELSE SubSeq(s, 1, n + 1)

\* s[:n]
Take(s, n) == IF n >= Len(s) THEN s ELSE SubSeq(s, 1, n)

\* top_doc_ids: heapq.nlargest(n_points, ...) when n_points is a number
\* below len(rrf_scores), else sorted(...)[:n_points]; `order` is the order
\* in which rrf_scores was filled, that of iterating all_doc_ids
TopDocIds(scores, order, cap) ==
    LET items == [i \in 1 .. Len(order) |-> [id |-> order[i], score |-> scores[order[i]]]]
        ranked == SortedDesc(items)
        ids == [i \in 1 .. Len(ranked) |-> ranked[i].id]
    IN  IF ~cap.none /\ cap.n # 0 /\ cap.n < Len(order)
        THEN Take(ids, cap.n)
        ELSE IF cap.none THEN ids ELSE Take(ids, cap.n)

\* doc_lookup: the sparse response's point replaces the dense one's
DocLookup(dense_results, sparse_results, doc_id) ==
    IF doc_id \in IdsOf(sparse_results)
    THEN sparse_results[CHOOSE i \in 1 .. Len(sparse_results) : sparse_results[i].id = doc_id]
    ELSE dense_results[CHOOSE i \in 1 .. Len(dense_results) : dense_results[i].id = doc_id]

\* doc.payload.get(key, '')
PayloadGet(doc, key) ==
    IF key \in DOMAIN doc.payload THEN doc.payload[key] ELSE ""

\* the joined "Context idx: value" blocks, one per top document
ContextChunks(dense_results, sparse_results, top, payload) ==
    [i \in 1 .. Len(top) |->
        [idx |-> i - 1,
         lines |-> [j \in 1 .. Len(payload) |->
                      PayloadGet(DocLookup(dense_results, sparse_results, top[i]),
                                 payload[j])]]]

\* the string rrf returns from its handler (reciprocal_rank_fusion.py:71-74)
RrfError == [text |-> "[RRF Error]", chunks |-> <<>>]

NoContext == [text |-> "", chunks |-> <<>>]

\* a handler that raises again
RrfReraise(e) == [text |-> "raised", chunks |-> <<>>]

\* the handler of rrf prints the traceback and returns the error string
RrfExcept(e) == RrfError

\* rrf(points, n_points, payload=["text"], k=60), as classify_message calls it
\* with the points hybrid_search returned
Rrf ==
    /\ stage \in {"searched", "fused"}
    /\ caller = "classify"
    /\ runs < MaxRuns
    /\ runs' = runs + 1
    /\ stage' = "fused"
    /\ previous' = context
    /\ IF points.error
       THEN /\ context' = RrfExcept("points")
            /\ UNCHANGED <<rrf_scores, top_doc_ids>>
       ELSE \E order \in SetOrders(AllDocIds(points.dense, points.sparse)) :
              LET scores == RrfScores(points.dense, points.sparse, RrfK)
                  top == TopDocIds(scores, order, n_points)
              IN  /\ rrf_scores' = scores
                  /\ top_doc_ids' = top
                  /\ context' = [text |-> "",
                                 chunks |-> ContextChunks(points.dense, points.sparse,
                                                          top, <<"text">>)]
    /\ UNCHANGED <<dense_hits, sparse_hits, n_points, points, query, search_limit,
                   caller, embed_calls, index_calls, loaded>>

(***************************************************************************)
(* The job queue and its workers (app/services/worker.py)                  *)
(***************************************************************************)

\* jobs a behaviour of SpecWorker enqueues
MaxJobs == 3

\* the worker tasks start_worker creates (five per CPU core)
Workers == {1, 2}

\* job["type"]: two of the types the worker handles, and one it does not
JobTypes == {"stream", "text_to_speech", "other"}

\* no entry of job_results has the id
NoJob == [status |-> "absent", result |-> "None"]

\* the id of the next job: str(uuid4()), never one in use
NextJobId == Len(job_types) + 1

\* enqueue_job(job)
EnqueueJob(type) ==
    /\ Len(job_types) < MaxJobs
    /\ job_types' = Append(job_types, type)
    /\ job_results' = [job_results EXCEPT ![NextJobId] =
                          [status |-> "pending", result |-> "None"]]
    /\ job_queue' = Append(job_queue, NextJobId)
    /\ UNCHANGED <<wpc, wjob, task_done, reported>>

\* worker: job_id, job = await job_queue.get()
WorkerGet(w) ==
    /\ wpc[w] = "get"
    /\ job_queue # <<>>
    /\ wjob' = [wjob EXCEPT ![w] = Head(job_queue)]
    /\ job_queue' = Tail(job_queue)
    /\ wpc' = [wpc EXCEPT ![w] = "run"]
    /\ UNCHANGED <<job_results, job_types, task_done, reported>>

\* a worker that calls task_done() only for a job that did not raise
TaskDoneOnSuccess(n, status) == IF status = "done" THEN n + 1 ELSE n

\* finally: job_queue.task_done()
TaskDone(n, status) == n + 1

\* the entry the worker writes for a job whose calls all returned; for a
\* type no branch handles `result` is unbound at worker.py:79 and the
\* handler turns the entry into an error
Processed(type) ==
    IF type = "other"
    THEN [status |-> "error", result |-> "UnboundLocalError"]
    ELSE [status |-> "done", result |-> type]

\* the worker leaves the try statement with the entry e written
WorkerFinish(w, e) ==
    /\ job_results' = [job_results EXCEPT ![wjob[w]] = e]
    /\ task_done' = [task_done EXCEPT ![wjob[w]] = TaskDone(@, e.status)]
    /\ wpc' = [wpc EXCEPT ![w] = "get"]
    /\ wjob' = [wjob EXCEPT ![w] = 0]
    /\ UNCHANGED <<job_queue, job_types, reported>>

\* worker: the calls of the job return
WorkerDone(w) ==
    /\ wpc[w] = "run"
    /\ WorkerFinish(w, Processed(job_types[wjob[w]]))

\* worker: a call of the job raises, the handler records str(e)
WorkerError(w) ==
    /\ wpc[w] = "run"
    /\ job_types[wjob[w]] # "other"
    /\ WorkerFinish(w, [status |-> "error", result |-> "Exception"])

\* get_job_result(job_id): an unknown id is answered "pending"; a finished
\* job is answered once and then dropped from job_results
GetJobResult(job_id) ==
    /\ reported' = [reported EXCEPT ![job_id] =
                      IF job_results[job_id].status = "absent"
                      THEN "pending"
                      ELSE job_results[job_id].status]
    /\ job_results' = [job_results EXCEPT ![job_id] =
                          IF @.status \in {"done", "error"} /\ @.result # "None"
                          THEN NoJob
                          ELSE @]
    /\ UNCHANGED <<job_queue, job_types, wpc, wjob, task_done>>

(***************************************************************************)
(* Password reset tokens (app/utils/token_service.py, routes/auth.py)      *)
(***************************************************************************)

\* reset_password requests a behaviour of SpecReset issues
MaxRequests == 3

\* the reset_password requests that may be in progress at once, all of them
\* with the same token
Requests == {1, 2}

\* the document generate_reset_token inserts
FreshToken == [present |-> TRUE, used |-> FALSE, expired |-> FALSE]

\* the document is gone
NoToken == [present |-> FALSE, used |-> FALSE, expired |-> FALSE]

\* verify_reset_token(token): find_one({"token": token, "used": False}), then
\* the expiry test; TRUE when the email is returned
TokenValid(doc) == doc.present /\ ~doc.used /\ ~doc.expired

\* what verify_reset_token leaves of the document: an expired one is deleted
AfterVerify(doc) ==
    IF doc.present /\ ~doc.used /\ doc.expired THEN NoToken ELSE doc

\* invalidate_reset_token(token): update_one({"token": token}, used = True)
Invalidated(doc) == IF doc.present THEN [doc EXCEPT !.used = TRUE] ELSE doc

\* fifteen minutes pass (TOKEN_EXPIRY_MINUTES)
Expire ==
    /\ token_doc.present
    /\ ~token_doc.expired
    /\ token_doc' = [token_doc EXCEPT !.expired = TRUE]
    /\ UNCHANGED <<rpc, response, rleft, successes, last_verify>>

\* the verify-reset-token route (auth.py:271)
VerifyResetToken ==
    /\ last_verify' = IF TokenValid(token_doc) THEN "valid" ELSE "invalid"
    /\ token_doc' = AfterVerify(token_doc)
    /\ UNCHANGED <<rpc, response, rleft, successes>>

\* a reset_password request with the token and a new password arrives
ResetStart(r) ==
    /\ rpc[r] = "idle"
    /\ rleft > 0
    /\ rleft' = rleft - 1
    /\ rpc' = [rpc EXCEPT ![r] = "verify"]
    /\ response' = [response EXCEPT ![r] = "none"]
    /\ UNCHANGED <<token_doc, successes, last_verify>>

\* reset_password: email = await verify_reset_token(request.token)
ResetVerify(r) ==
    /\ rpc[r] = "verify"
    /\ token_doc' = AfterVerify(token_doc)
    /\ IF TokenValid(token_doc)
       THEN /\ rpc' = [rpc EXCEPT ![r] = "update"]
            /\ UNCHANGED response
       ELSE /\ rpc' = [rpc EXCEPT ![r] = "idle"]
            /\ response' = [response EXCEPT ![r] = "INVALID_TOKEN"]
    /\ UNCHANGED <<rleft, successes, last_verify>>

\* reset_password: get_user_by_email, then update_user_password
ResetUpdate(r) ==
    /\ rpc[r] = "update"
    /\ rpc' = [rpc EXCEPT ![r] = "invalidate"]
    /\ UNCHANGED <<token_doc, response, rleft, successes, last_verify>>

\* update_user_password returns False
ResetUpdateFail(r) ==
    /\ rpc[r] = "update"
    /\ rpc' = [rpc EXCEPT ![r] = "idle"]
    /\ response' = [response EXCEPT ![r] = "PASSWORD_UPDATE_FAILED"]
    /\ UNCHANGED <<token_doc, rleft, successes, last_verify>>

\* reset_password answers success after invalidate_reset_token, whatever
\* that returned
ResetAnswer(r) ==
    /\ rpc' = [rpc EXCEPT ![r] = "idle"]
    /\ response' = [response EXCEPT ![r] = "success"]
    /\ successes' = successes + 1
    /\ UNCHANGED <<rleft, last_verify>>

\* reset_password: await invalidate_reset_token(request.token)
ResetInvalidate(r) ==
    /\ rpc[r] = "invalidate"
    /\ token_doc' = Invalidated(token_doc)
    /\ ResetAnswer(r)

\* update_one raises: invalidate_reset_token returns False
ResetInvalidateFail(r) ==
    /\ rpc[r] = "invalidate"
    /\ UNCHANGED token_doc
    /\ ResetAnswer(r)

(***************************************************************************)
(* Specifications                                                          *)
(***************************************************************************)

\* the collection n sequential record calls leave behind, n < K
Filled(n) ==
    LET before(i) == Cardinality({m \in 1 .. n : Uuid4(m) < Uuid4(i)})
        at(j) == CHOOSE i \in 1 .. n : before(i) = j - 1
    IN  [j \in 1 .. n |->
            LET i == at(j)
            IN  PointStruct(MessageArgs(i), Embed(i), Uuid4(i))]

\* a process starts; the index holds what n earlier calls recorded
InitAfter(n) ==
    /\ seed \in 1 .. MaxSeed
    /\ exists = (n > 0)
    /\ store = Filled(n)
    /\ calls = n
    /\ uuids = n
    /\ pc = [p \in Procs |-> "idle"]
    /\ args = [p \in Procs |-> NoArgs]
    /\ listed = [p \in Procs |-> <<>>]
    /\ vec = [p \in Procs |-> EmbedFailed]
    /\ outcome = [p \in Procs |-> "none"]
    /\ log = [p \in Procs |-> <<>>]
    /\ recent = NoRecent
    /\ recent_limit = 0
    /\ deleted = NoDelete
    /\ failures = 0

\* no retrieval is under way
InitNoSearch ==
    /\ dense_hits = <<>>
    /\ sparse_hits = <<>>
    /\ n_points = [none |-> TRUE, n |-> 0]
    /\ stage = "start"
    /\ points = NoPoints
    /\ rrf_scores = <<>>
    /\ top_doc_ids = <<>>
    /\ context = NoContext
    /\ previous = NoContext
    /\ runs = 0
    /\ query = ""
    /\ search_limit = SearchLimit
    /\ caller = "classify"
    /\ embed_calls = 0
    /\ index_calls = 0

\* the models load on first use (text_embedding.py:8-10) and no sparse
\* vector has been computed
InitNoSparse ==
    /\ loaded = FALSE
    /\ logits = <<>>
    /\ sparse = NoSparse

\* no job was enqueued
InitNoJobs ==
    /\ job_queue = <<>>
    /\ job_results = [id \in 1 .. MaxJobs |-> NoJob]
    /\ job_types = <<>>
    /\ wpc = [w \in Workers |-> "get"]
    /\ wjob = [w \in Workers |-> 0]
    /\ task_done = [id \in 1 .. MaxJobs |-> 0]
    /\ reported = [id \in 1 .. MaxJobs |-> "none"]

\* no reset token was generated
InitNoTokens ==
    /\ token_doc = NoToken
    /\ rpc = [r \in Requests |-> "idle"]
    /\ response = [r \in Requests |-> "none"]
    /\ rleft = 0
    /\ successes = 0
    /\ last_verify = "none"

InitNoService == InitNoJobs /\ InitNoTokens

\* the steps of add_message_vector when every call it makes succeeds
RecordStep(p) ==
    \/ EnsureCheck(p)
    \/ CreateCollection(p)
    \/ ListMessages(p)
    \/ RemoveOldest(p)
    \/ EmbedMessage(p)
    \/ Upsert(p)

\* the same steps when the call fails
RecordStepFail(p) ==
    \/ EnsureCheckFail(p)
    \/ CreateCollectionFail(p)
    \/ ListMessagesFail(p)
    \/ RemoveOldestFail(p)
    \/ EmbedMessageFail(p)
    \/ UpsertFail(p)

\* sequential, non-failing record calls with strictly increasing timestamps
\* into a fresh collection
InitSeq ==
    /\ stride = 1
    /\ left = K + MaxExtra
    /\ InitAfter(0)
    /\ InitNoSearch
    /\ InitNoSparse
    /\ InitNoService

NextSeq ==
    /\ \E p \in Procs : StartRecord(p) \/ RecordStep(p)
    /\ UNCHANGED <<searchVars, sparseVars, serviceVars>>

SpecSeq == InitSeq /\ [][NextSeq]_vars

\* concurrent record calls, some of whose network / model calls fail, into
\* a fresh collection or one that K - 1 earlier calls filled
Init ==
    /\ stride \in 1 .. MaxStride
    /\ left = MaxCalls
    /\ \E n \in {0, K - 1} : InitAfter(n)
    /\ InitNoSearch
    /\ InitNoSparse
    /\ InitNoService

Next ==
    /\ \E p \in Procs :
          \/ StartRecord(p)
          \/ StartRecordConcurrent(p)
          \/ RecordStep(p)
          \/ RecordStepFail(p)
    /\ UNCHANGED <<searchVars, sparseVars, serviceVars>>

Spec == Init /\ [][Next]_vars

\* sequential record calls and reads of the window
NextRead ==
    /\ \/ \E p \in Procs : StartRecord(p) \/ RecordStep(p)
       \/ \E limit \in RecentLimits : Recent(limit)
       \/ \E limit \in RecentLimits : RecentFail(limit)
    /\ UNCHANGED <<searchVars, sparseVars, serviceVars>>

SpecRead == Init /\ [][NextRead]_vars

\* the result lists of the enumerated queries: at most MaxLen hits with
\* distinct ids
HitLists ==
    UNION {{[i \in 1 .. n |-> Hit(ids[i], scores[i])] :
               ids \in {f \in [1 .. n -> Ids] : \A i, j \in 1 .. n : i # j => f[i] # f[j]},
               scores \in [1 .. n -> 1 .. MaxScore]} : n \in 0 .. MaxLen}

\* the fixture of the fusion test: dense A 0.9, B 0.8, C 0.7 and
\* sparse B 5.0, D 4.0, A 3.0
FixtureDense == <<Hit("A", 9), Hit("B", 8), Hit("C", 7)>>

FixtureSparse == <<Hit("B", 50), Hit("D", 40), Hit("A", 30)>>

\* the n_points rrf is called with: None, or a number up to MaxCap
Caps ==
    {[none |-> TRUE, n |-> 0]} \cup {[none |-> FALSE, n |-> c] : c \in 0 .. MaxCap}

\* one retrieval: the hybrid search, then rrf on what it returned
InitRrf ==
    /\ stride = 1
    /\ left = 0
    /\ seed = 1
    /\ InitAfter(0)
    /\ InitNoSparse
    /\ InitNoService
    /\ query \in Queries
    /\ embed_calls = 0
    /\ index_calls = 0
    /\ \/ /\ dense_hits \in HitLists /\ sparse_hits \in HitLists
          /\ caller = "classify"
          /\ search_limit = SearchLimit
          /\ n_points \in Caps
       \/ /\ dense_hits = FixtureDense /\ sparse_hits = FixtureSparse
          /\ caller = "classify"
          /\ search_limit = SearchLimit
          /\ n_points \in Caps
       \/ /\ dense_hits \in HitLists /\ sparse_hits \in HitLists
          /\ caller = "route"
          /\ search_limit \in RouteLimits
          /\ n_points = [none |-> TRUE, n |-> 0]
    /\ stage = "start"
    /\ points = NoPoints
    /\ rrf_scores = <<>>
    /\ top_doc_ids = <<>>
    /\ context = NoContext
    /\ previous = NoContext
    /\ runs = 0

NextRrf ==
    /\ HybridSearch \/ HybridSearchRoute \/ HybridSearchFail \/ Rrf
    /\ UNCHANGED <<memVars, sparseVars, serviceVars>>

SpecRrf == InitRrf /\ [][NextRrf]_vars

\* record calls that overlap at first and then run one at a time: the last
\* MaxExtra calls start only when no call is running
InitSettle ==
    /\ stride \in 1 .. MaxStride
    /\ left = MaxCalls + MaxExtra
    /\ InitAfter(K - 1)
    /\ InitNoSearch
    /\ InitNoSparse
    /\ InitNoService

NextSettle ==
    /\ \E p \in Procs :
          \/ StartRecord(p)
          \/ left > MaxExtra /\ StartRecordConcurrent(p)
          \/ RecordStep(p)
    /\ UNCHANGED <<searchVars, sparseVars, serviceVars>>

\* the event loop runs every task that can run
SpecSettle == InitSettle /\ [][NextSettle]_vars /\ WF_vars(NextSettle)

\* record calls one at a time, some of whose network / model calls fail
NextFail ==
    /\ \E p \in Procs : StartRecord(p) \/ RecordStep(p) \/ RecordStepFail(p)
    /\ UNCHANGED <<searchVars, sparseVars, serviceVars>>

SpecFail == Init /\ [][NextFail]_vars

\* sequential record calls and deletions of a conversation's points
NextDelete ==
    /\ \/ \E p \in Procs : StartRecord(p) \/ RecordStep(p)
       \/ \E conversation_id \in ConversationIds :
             \/ DeleteConversationVectors(conversation_id)
             \/ DeleteConversationVectorsFail(conversation_id)
    /\ UNCHANGED <<searchVars, sparseVars, serviceVars>>

SpecDelete == Init /\ [][NextDelete]_vars

\* one call of compute_sparse_vector on the logits of a two-token text
InitSparse ==
    /\ stride = 1
    /\ left = 0
    /\ seed = 1
    /\ InitAfter(0)
    /\ InitNoSearch
    /\ InitNoService
    /\ loaded = FALSE
    /\ logits \in [Positions -> [Vocab -> LogitValues]]
    /\ sparse = NoSparse

NextSparse ==
    /\ ComputeSparseVector
    /\ UNCHANGED <<memVars, searchVars, serviceVars>>

SpecSparse == InitSparse /\ [][NextSparse]_vars

\* the job queue: clients enqueue and poll, the workers run the jobs
InitWorker ==
    /\ stride = 1
    /\ left = 0
    /\ seed = 1
    /\ InitAfter(0)
    /\ InitNoSearch
    /\ InitNoSparse
    /\ InitNoJobs
    /\ InitNoTokens

NextWorker ==
    /\ \/ \E type \in JobTypes : EnqueueJob(type)
       \/ \E w \in Workers : WorkerGet(w) \/ WorkerDone(w) \/ WorkerError(w)
       \/ \E job_id \in 1 .. MaxJobs : GetJobResult(job_id)
    /\ UNCHANGED <<memVars, searchVars, loaded, sparseVars, tokenVars>>

\* every worker keeps running: it takes a job when one waits, and the job
\* it runs ends
SpecWorker ==
    /\ InitWorker
    /\ [][NextWorker]_vars
    /\ \A w \in Workers : WF_workerVars(WorkerGet(w))
    /\ \A w \in Workers : WF_workerVars(WorkerDone(w) \/ WorkerError(w))

\* one reset token, and the requests made with it
InitReset ==
    /\ stride = 1
    /\ left = 0
    /\ seed = 1
    /\ InitAfter(0)
    /\ InitNoSearch
    /\ InitNoSparse
    /\ InitNoJobs
    /\ token_doc = FreshToken
    /\ rpc = [r \in Requests |-> "idle"]
    /\ response = [r \in Requests |-> "none"]
    /\ rleft = MaxRequests
    /\ successes = 0
    /\ last_verify = "none"

NextReset ==
    /\ \/ Expire
       \/ VerifyResetToken
       \/ \E r \in Requests :
             \/ ResetStart(r)
             \/ ResetVerify(r)
             \/ ResetUpdate(r)
             \/ ResetUpdateFail(r)
             \/ ResetInvalidate(r)
             \/ ResetInvalidateFail(r)
    /\ UNCHANGED <<memVars, searchVars, loaded, sparseVars, workerVars>>

SpecReset == InitReset /\ [][NextReset]_vars

(***************************************************************************)
(* Properties                                                              *)
(***************************************************************************)

Idle == \A p \in Procs : pc[p] = "idle"

Min(a, b) == IF a <= b THEN a ELSE b

\* SpecSeq reaches the filled collection that Init starts from
FilledIsReached ==
    (Idle /\ calls = K - 1) => (exists /\ store = Filled(K - 1))

\* the user_message values get_recent_conversations(limit) renders now
Rendered(limit) ==
    LET r == GetRecentConversations(limit)
    IN  {r.chunks[i].user_message : i \in 1 .. Len(r.chunks)}

C2_WindowBound ==
    /\ Idle => Len(store) <= K
    /\ Cardinality({p \in Procs : pc[p] # "idle"}) = 1 => Len(store) <= K + 1

C4_NeverRaises == \A p \in Procs : outcome[p] # "raised"

C4_Witness ==
    \E p \in Procs :
        /\ pc[p] = "idle"
        /\ outcome[p] = "returned"
        /\ \E i \in 1 .. Len(log[p]) : log[p][i] = "upsert"

\* C5: get_recent_conversations on a collection that is empty or does not
\* exist returns the first-message sentinel.
C5_SentinelOnEmptyOrAbsent ==
    [][(recent' # recent /\ failures' = failures /\ (~exists \/ store = <<>>))
          => recent'.text = FirstMessageSentinel]_vars

\* C6: when the hybrid search failed, the caller ends up with no context
\* produced from it.
C6_NoContextFromFailedQuery ==
    (stage = "fused" /\ points.error) => context = NoContext

IsFixture == dense_hits = FixtureDense /\ sparse_hits = FixtureSparse

Fused == stage = "fused" /\ ~points.error

\* C7 as stated: on the fixture with k = 60 and cap 2, rrf returns A then B.
C7_FixtureAThenB ==
    (Fused /\ IsFixture /\ n_points = [none |-> FALSE, n |-> 2])
        => top_doc_ids = <<"A", "B">>

\* C7 as amended: on the fixture with k = 60 and cap 2, rrf returns B then A.
C7_FixtureBThenA ==
    (Fused /\ IsFixture /\ n_points = [none |-> FALSE, n |-> 2])
        => /\ top_doc_ids = <<"B", "A">>
           /\ context.chunks = <<[idx |-> 0, lines |-> <<"B">>],
                                 [idx |-> 1, lines |-> <<"A">>]>>

C7_Witness == Fused /\ IsFixture /\ n_points = [none |-> FALSE, n |-> 2]

\* the 1-based position of id in results sorted by score descending, equal
\* scores in list order; one past the end when id is not in results
PositionByScore(results, id) ==
    IF \E i \in 1 .. Len(results) : results[i].id = id
    THEN LET i == CHOOSE i \in 1 .. Len(results) : results[i].id = id
         IN  1 + Cardinality({j \in 1 .. Len(results) :
                                 \/ results[j].score > results[i].score
                                 \/ results[j].score = results[i].score /\ j < i})
    ELSE Len(results) + 1

\* C8: every id of either list gets the score
\* 1/(k + rank_dense) + 1/(k + rank_sparse), an id missing from a list
\* ranking one past that list's end.
C8_ScoreFormula ==
    Fused =>
        /\ DOMAIN rrf_scores = IdsOf(points.dense) \cup IdsOf(points.sparse)
        /\ \A id \in DOMAIN rrf_scores :
              LET rd == PositionByScore(points.dense, id)
                  rs == PositionByScore(points.sparse, id)
              IN  /\ RrfK + rd > 0 /\ RrfK + rs > 0
                  /\ rrf_scores[id][2] > 0
                  /\ rrf_scores[id][1] * ((RrfK + rd) * (RrfK + rs))
                        = ((RrfK + rs) + (RrfK + rd)) * rrf_scores[id][2]

C8_Witness ==
    /\ Fused
    /\ \E id \in DOMAIN rrf_scores : id \notin IdsOf(points.sparse)
    /\ \E id \in DOMAIN rrf_scores : id \notin IdsOf(points.dense)
    /\ \E id \in DOMAIN rrf_scores : id \in IdsOf(points.dense) \cap IdsOf(points.sparse)

\* the ids in the order they are first met: the dense list, then the
\* sparse list
UnionOrder(dense_results, sparse_results) ==
    [i \in 1 .. Len(dense_results) |-> dense_results[i].id]
        \o SelectSeq([i \in 1 .. Len(sparse_results) |-> sparse_results[i].id],
                     LAMBDA id : id \notin IdsOf(dense_results))

\* C9: rrf returns the top n_points ids by fused score, descending, ids
\* of equal score in the order they were first met while building the union.
C9_TiesInUnionOrder ==
    Fused =>
        top_doc_ids = TopDocIds(rrf_scores, UnionOrder(points.dense, points.sparse),
                                n_points)

\* C10: two runs of rrf on the same arguments return the same string.
C10_SameOutputTwice == runs >= 2 => context = previous

\* C11: every id of the dense or of the sparse list gets a fused score and
\* competes for the top n_points: an id is left out of the result only when
\* the cap is reached by ids that score at least as much.
C11_FusionComplete ==
    Fused =>
        \A id \in IdsOf(points.dense) \cup IdsOf(points.sparse) :
            /\ id \in DOMAIN rrf_scores
            /\ (\A i \in 1 .. Len(top_doc_ids) : top_doc_ids[i] # id) =>
                  /\ ~n_points.none
                  /\ Len(top_doc_ids) = n_points.n
                  /\ \A i \in 1 .. Len(top_doc_ids) :
                        ~FracLess(rrf_scores[top_doc_ids[i]], rrf_scores[id])

C11_Witness ==
    /\ Fused
    /\ n_points.none
    /\ Len(top_doc_ids) = 3
    /\ \E i \in 1 .. 3 : top_doc_ids[i] \notin IdsOf(points.dense)
    /\ \E i \in 1 .. 3 : top_doc_ids[i] \notin IdsOf(points.sparse)

\* C12: the context rrf returns has min(n_points, number of distinct ids of
\* the two lists) entries (all of them when n_points is None), each from a
\* different point id.
C12_ContextSize ==
    Fused =>
        LET n == Cardinality(IdsOf(points.dense) \cup IdsOf(points.sparse))
        IN  /\ Len(context.chunks) = IF n_points.none THEN n ELSE Min(n_points.n, n)
            /\ Len(top_doc_ids) = Len(context.chunks)
            /\ \A i, j \in 1 .. Len(top_doc_ids) :
                  i # j => top_doc_ids[i] # top_doc_ids[j]
            /\ \A i \in 1 .. Len(context.chunks) :
                  /\ context.chunks[i].idx = i - 1
                  /\ context.chunks[i].lines = <<top_doc_ids[i]>>

C12_Witness ==
    /\ Fused
    /\ n_points = [none |-> FALSE, n |-> 2]
    /\ Cardinality(IdsOf(points.dense) \cup IdsOf(points.sparse)) = 3
    /\ IdsOf(points.dense) \cap IdsOf(points.sparse) # {}
    /\ Len(context.chunks) = 2

C15_EmbedUnavailableIsFatal ==
    [][\A p \in Procs :
          (pc[p] = "embed" /\ pc'[p] # "embed" /\ ~loaded /\ ~loaded')
              => pc'[p] # "upsert"]_vars

\* C16: the indices compute_sparse_vector returns are pairwise distinct,
\* there are as many values as indices, and every value is above zero.
C16_SparseInvariant ==
    sparse.done =>
        /\ Len(sparse.indices) = Len(sparse.values)
        /\ \A i, j \in 1 .. Len(sparse.indices) :
              i # j => sparse.indices[i] # sparse.indices[j]
        /\ \A i \in 1 .. Len(sparse.values) : sparse.values[i] > 0

C16_Witness ==
    /\ sparse.done
    /\ Len(sparse.indices) = 2
    /\ \E c \in Vocab : \E i \in Positions : logits[i][c] < 0

\* C17: ensure_collection_exists never ends the call that makes it and never
\* touches the points; when no index call failed the collection exists once
\* it is through, also when two calls both tried to create it; and on a
\* collection that exists it changes nothing.
C17_EnsureToleratesRace ==
    [][\A p \in Procs :
          (pc[p] \in {"ensure", "create"} /\ pc'[p] # pc[p]) =>
              /\ pc'[p] \in {"create", "list"}
              /\ outcome'[p] = "running"
              /\ store' = store
              /\ exists => exists'
              /\ (failures' = 0 /\ pc'[p] = "list") => exists'
              /\ (exists /\ pc[p] = "ensure" /\ failures' = failures) =>
                    /\ pc'[p] = "list"
                    /\ log'[p] = log[p]
      ]_vars

C17_Witness ==
    /\ failures = 0
    /\ exists
    /\ \E p \in Procs :
          /\ pc[p] = "list"
          /\ \E i \in 1 .. Len(log[p]) : log[p][i] = "create"

C19_PayloadKeys ==
    \A i \in 1 .. Len(store) :
        {"conversation_id", "timestamp", "user_message", "bot_response"}
            \subseteq DOMAIN store[i].payload

C19_Witness ==
    \E i \in 1 .. Len(store) : store[i].payload.user_message = K

\* C20: a delete_conversation_vectors call that returns has removed exactly
\* the points whose payload conversation_id is the given one; a call whose
\* scroll or delete failed raises to its caller and removes nothing.
C20_DeleteFrame ==
    [][deleted' # deleted =>
          LET c == deleted'.conversation_id
          IN  /\ deleted'.outcome \in {"returned", "raised"}
              /\ deleted'.outcome = "returned" =>
                    /\ \A j \in 1 .. Len(store') :
                          store'[j].payload.conversation_id # c
                    /\ store' = SelectSeq(store,
                                    LAMBDA q : q.payload.conversation_id # c)
              /\ deleted'.outcome = "raised" => store' = store
              /\ (~exists \/ failures' # failures) => deleted'.outcome = "raised"
      ]_vars

C20_Witness ==
    /\ deleted.outcome = "returned"
    /\ deleted.conversation_id = 1
    /\ deleted.n = 1
    /\ calls >= K - 1
    /\ Len(store) > 0
    /\ \A i \in 1 .. Len(store) : store[i].payload.conversation_id # 1

\* the ids of the points the collection holds
StoreIds == {store[i].id : i \in 1 .. Len(store)}

\* C21: nothing keeps two record calls apart: a call whose oldest listed
\* point another call has deleted meanwhile deletes nothing, logs nothing
\* and goes on to insert, so two overlapping calls that both complete
\* without error can leave more than K points.
C21_NoMutualExclusion ==
    [][\A p \in Procs :
          (/\ pc[p] = "evict"
           /\ pc'[p] # "evict"
           /\ failures' = failures
           /\ listed[p] # <<>>
           /\ Oldest(listed[p]).id \notin StoreIds)
              => /\ store' = store
                 /\ log'[p] = log[p]
                 /\ pc'[p] = "embed"]_vars

C21_Witness ==
    /\ Idle
    /\ failures = 0
    /\ Len(store) > K
    /\ \A p \in Procs : outcome[p] = "returned" /\ log[p] = <<>>

\* C22: after record calls overlapped, and once the calls run one at a time,
\* the collection comes back to at most K points.
C22_EventuallyWithinBound == <>[](Idle => Len(store) <= K)

\* the user_message values of the chunks the last call rendered
RecentMessages == {recent.chunks[i].user_message : i \in 1 .. Len(recent.chunks)}

C24_PointsImmutable ==
    [][/\ \A j \in 1 .. Len(store') :
             \/ \E i \in 1 .. Len(store) : store[i] = store'[j]
             \/ /\ store'[j].id \notin StoreIds
                /\ \E p \in Procs : pc[p] = "upsert" /\ pc'[p] = "idle"
       /\ Cardinality(StoreIds \ StoreIds') <= 1
       /\ Cardinality(StoreIds' \ StoreIds) <= 1
       /\ Len(store') = Cardinality(StoreIds')
       /\ \A p \in Procs :
             /\ (pc[p] = "upsert" /\ pc'[p] = "idle" /\ log'[p] = log[p]) =>
                   /\ Cardinality(StoreIds' \ StoreIds) = 1
                   /\ StoreIds \subseteq StoreIds'
             /\ (pc[p] = "evict" /\ pc'[p] # "evict") => StoreIds' \subseteq StoreIds
      ]_vars

C24_Witness ==
    /\ Idle
    /\ calls = K + 1
    /\ Len(store) = K
    /\ \E i \in 1 .. Len(store) : store[i].payload.user_message = K + 1
    /\ \A i \in 1 .. Len(store) : store[i].payload.user_message # 1

\* the hits with every score s replaced by s * mul + add
Rescaled(hits, mul, add) ==
    [i \in 1 .. Len(hits) |-> [hits[i] EXCEPT !.score = @ * mul + add]]

\* the hits with every score replaced by the number of hits it beats, plus one
Canonical(hits) ==
    [i \in 1 .. Len(hits) |->
        [hits[i] EXCEPT !.score =
            1 + Cardinality({j \in 1 .. Len(hits) : hits[j].score < hits[i].score})]]

\* no two hits of the list have the same score
StrictScores(hits) ==
    \A i, j \in 1 .. Len(hits) : i # j => hits[i].score # hits[j].score

\* lists of the same ids whose scores induce the same strict order
SameOrderLists(hits) ==
    {Rescaled(hits, sc[1], sc[2]) : sc \in {<<1, 1>>, <<2, 0>>, <<3, 2>>}}
        \cup {Canonical(hits)}

\* C25: rrf gives the same scores, the same selection and the same context
\* when the scores of a list are replaced by others that put its ids in the
\* same strict descending order.
C25_RankOnly ==
    (Fused /\ StrictScores(points.dense) /\ StrictScores(points.sparse)) =>
        \A d \in SameOrderLists(points.dense), sp \in SameOrderLists(points.sparse) :
            /\ RrfScores(d, sp, RrfK) = rrf_scores
            /\ \E order \in SetOrders(AllDocIds(d, sp)) :
                  TopDocIds(RrfScores(d, sp, RrfK), order, n_points) = top_doc_ids
            /\ ContextChunks(d, sp, top_doc_ids, <<"text">>) = context.chunks

C25_Witness ==
    /\ Fused
    /\ IsFixture
    /\ n_points.none
    /\ Canonical(points.sparse) # points.sparse

\* p's log holds the error e
Logged(p, e) == \E i \in 1 .. Len(log[p]) : log[p][i] = e

\* C26: a failed listing or a failed eviction delete does not stop the record
\* call and removes nothing; the upsert still runs, so a call on a collection
\* of K points ends with K + 1 points.
C26_FailedEvictionStillInserts ==
    [][\A p \in Procs :
          /\ (pc[p] \in {"list", "evict"} /\ pc'[p] # pc[p] /\ failures' # failures) =>
                /\ pc'[p] = "embed"
                /\ store' = store
                /\ outcome'[p] = "running"
          /\ (/\ pc[p] = "upsert"
              /\ pc'[p] = "idle"
              /\ log'[p] = log[p]
              /\ Len(store) = K
              /\ Logged(p, "scroll") \/ Logged(p, "delete")) =>
                /\ Len(store') = K + 1
                /\ outcome'[p] = "returned"
      ]_vars

C26_Witness ==
    /\ Idle
    /\ Len(store) = K + 1
    /\ \E p \in Procs : outcome[p] = "returned" /\ log[p] = <<"delete">>

C28_RrfNeverRaises ==
    stage = "fused" =>
        /\ context.text \in {"", "[RRF Error]"}
        /\ points.error => context = RrfError
        /\ ~points.error => context.text = ""

C28_Witness ==
    /\ stage = "fused"
    /\ points.error
    /\ runs = 1
    /\ context.text = "[RRF Error]"

\* job id was enqueued, taken by a worker and left by it
JobFinished(id) ==
    /\ id <= Len(job_types)
    /\ \A i \in 1 .. Len(job_queue) : job_queue[i] # id
    /\ \A w \in Workers : wjob[w] # id

\* C29: an entry of job_results is created with status pending and never
\* goes from done or error back to pending; task_done() has been called
\* once for every job a worker took and left, however the job ended, and
\* for no other; and with the workers running every pending job reaches
\* done or error.
C29_JobLifecycle ==
    /\ [][\A id \in 1 .. MaxJobs :
             /\ (job_results[id].status = "absent" /\ job_results'[id].status # "absent")
                   => job_results'[id].status = "pending"
             /\ job_results[id].status \in {"done", "error"}
                   => job_results'[id].status # "pending"
             /\ job_results[id].status = "pending"
                   => job_results'[id].status \in {"pending", "done", "error"}
         ]_vars
    /\ [](\A id \in 1 .. MaxJobs :
             task_done[id] = IF JobFinished(id) THEN 1 ELSE 0)
    /\ \A id \in 1 .. MaxJobs :
          (job_results[id].status = "pending")
              ~> (job_results[id].status \in {"done", "error"})

C29_Witness ==
    /\ \E id \in 1 .. MaxJobs :
          job_results[id].status = "done" /\ task_done[id] = 1
    /\ \E id \in 1 .. MaxJobs :
          /\ job_results[id] = [status |-> "error", result |-> "Exception"]
          /\ task_done[id] = 1

\* C30: once a reset_password request with the token has succeeded, no
\* reset_password request with it succeeds or passes the token check, and
\* verify_reset_token does not accept it.
C30_TokenSingleUse ==
    [][successes >= 1 =>
          /\ successes' = successes
          /\ \A r \in Requests : ~(rpc[r] = "verify" /\ rpc'[r] = "update")
          /\ last_verify' # last_verify => last_verify' = "invalid"]_vars

====
